---------------------------- MODULE Spec2Model ----------------------------
(***************************************************************************)
(* A model of crypto_calculator.py: the rate fetcher get_current_rate and  *)
(* the Dash callback update_conversion.                                    *)
(*                                                                         *)
(* Text is a sequence of one-character strings, so that float(...) and the *)
(* f-string of line 213 are computed character by character.  A Python     *)
(* float is a sign and a reduced fraction num/den (or inf, or nan).  The   *)
(* numbers the model feeds in are dyadic (den a power of two) and small,   *)
(* so every IEEE-754 double operation of the program on them is exact.     *)
(***************************************************************************)
EXTENDS Integers, Sequences, FiniteSets, TLC

\* Number of callback invocations the Dash server may have in progress.
NumInv == 2

Invocations == 1..NumInv

-----------------------------------------------------------------------------
(* Python values: None, int, float *)

PyNone == [py |-> "None", cls |-> "fin", neg |-> FALSE, num |-> 0, den |-> 1]

\* A local that has not been assigned yet.
Unset == [py |-> "unset", cls |-> "fin", neg |-> FALSE, num |-> 0, den |-> 1]

PyInt(neg, n) == [py |-> "int", cls |-> "fin", neg |-> neg, num |-> n, den |-> 1]

RECURSIVE GCD(_, _)
GCD(a, b) == IF b = 0 THEN a ELSE GCD(b, a % b)

\* The double num/den, reduced; -0.0 keeps its sign.
PyFloat(neg, num, den) ==
    LET g == GCD(num, den)
    IN  [py |-> "float", cls |-> "fin", neg |-> neg, num |-> num \div g, den |-> den \div g]

PyInf(neg) == [py |-> "float", cls |-> "inf", neg |-> neg, num |-> 0, den |-> 1]

PyNaN == [py |-> "float", cls |-> "nan", neg |-> FALSE, num |-> 0, den |-> 1]

\* The result of an expression that may raise: exc = "" when it did not.
Ok(v) == [exc |-> "", v |-> v]

Raise(e) == [exc |-> e, v |-> PyNone]

-----------------------------------------------------------------------------
(* JSON values, as requests' .json() builds them *)

EmptyDict == [k \in {} |-> 0]

JNull == [t |-> "null", s |-> <<>>, d |-> EmptyDict]

JList == [t |-> "list", s |-> <<>>, d |-> EmptyDict]

JStr(s) == [t |-> "str", s |-> s, d |-> EmptyDict]

JDict(f) == [t |-> "dict", s |-> <<>>, d |-> f]

\* v[key] with a string key: KeyError on a dict without the key, TypeError on
\* None, a list or a string.
GetItem(v, key) ==
    IF v.t = "dict"
    THEN IF key \in DOMAIN v.d THEN [exc |-> "", v |-> v.d[key]]
                                ELSE [exc |-> "KeyError", v |-> JNull]
    ELSE [exc |-> "TypeError", v |-> JNull]

-----------------------------------------------------------------------------
(* float(str) *)

Digits == <<"0", "1", "2", "3", "4", "5", "6", "7", "8", "9">>

IsDigit(c) == \E k \in 1..10 : Digits[k] = c

DigitVal(c) == (CHOOSE k \in 1..10 : Digits[k] = c) - 1

AllDigits(s) == \A k \in 1..Len(s) : IsDigit(s[k])

RECURSIVE DigitsVal(_)
DigitsVal(s) ==
    IF s = <<>> THEN 0
    ELSE 10 * DigitsVal(SubSeq(s, 1, Len(s) - 1)) + DigitVal(s[Len(s)])

RECURSIVE Pow10(_)
Pow10(k) == IF k = 0 THEN 1 ELSE 10 * Pow10(k - 1)

\* float(s) for a string s: an optional sign, then nan, inf or a decimal with
\* at least one digit; anything else is a ValueError.  (Exponents, underscores
\* and surrounding blanks, which float() also reads, are not in the model's
\* alphabet.)
FloatOfStr(s) ==
    LET signed == s # <<>> /\ s[1] \in {"+", "-"}
        neg    == s # <<>> /\ s[1] = "-"
        body   == IF signed THEN Tail(s) ELSE s
        dots   == {k \in 1..Len(body) : body[k] = "."}
    IN  IF body = <<"n", "a", "n">> THEN Ok(PyNaN)
        ELSE IF body = <<"i", "n", "f">> THEN Ok(PyInf(neg))
        ELSE IF Cardinality(dots) > 1 THEN Raise("ValueError")
        ELSE LET dot  == IF dots = {} THEN Len(body) + 1 ELSE CHOOSE k \in dots : TRUE
                 ip   == SubSeq(body, 1, dot - 1)
                 fp   == SubSeq(body, dot + 1, Len(body))
             IN  IF AllDigits(ip) /\ AllDigits(fp) /\ Len(ip) + Len(fp) > 0
                 THEN Ok(PyFloat(neg, DigitsVal(ip \o fp), Pow10(Len(fp))))
                 ELSE Raise("ValueError")

\* float(v) for a JSON value v: a string is parsed, None, a list and a dict
\* are a TypeError.
FloatOf(v) == IF v.t = "str" THEN FloatOfStr(v.s) ELSE Raise("TypeError")

-----------------------------------------------------------------------------
(* rate*amount and the format specifications of line 213 *)

\* rate*amount (line 212): rate is a float and amount an int or a float; None
\* on either side, were it to get that far, is a TypeError.
PyMul(a, b) ==
    IF a.py \notin {"int", "float"} \/ b.py \notin {"int", "float"}
    THEN Raise("TypeError")
    ELSE IF a.cls = "nan" \/ b.cls = "nan" THEN Ok(PyNaN)
    ELSE IF a.cls = "inf" \/ b.cls = "inf"
         THEN IF (a.cls = "fin" /\ a.num = 0) \/ (b.cls = "fin" /\ b.num = 0)
              THEN Ok(PyNaN)
              ELSE Ok(PyInf(a.neg # b.neg))
    ELSE Ok(PyFloat(a.neg # b.neg, a.num * b.num, a.den * b.den))

RECURSIVE IntStr(_)
IntStr(n) ==
    IF n < 10 THEN <<Digits[n + 1]>>
    ELSE IntStr(n \div 10) \o <<Digits[(n % 10) + 1]>>

\* The ',' option: the digits of n in groups of three.
RECURSIVE Grouped(_)
Grouped(n) ==
    IF n < 1000 THEN IntStr(n)
    ELSE Grouped(n \div 1000) \o <<",">>
         \o <<Digits[((n \div 100) % 10) + 1], Digits[((n \div 10) % 10) + 1],
              Digits[(n % 10) + 1]>>

Sign(x) == IF x.neg THEN <<"-">> ELSE <<>>

\* The decimal expansion of fr/den, 0 <= fr < den (finite: den is a power of two).
RECURSIVE FracDigits(_, _)
FracDigits(fr, den) ==
    IF fr = 0 THEN <<>>
    ELSE <<Digits[((fr * 10) \div den) + 1]>> \o FracDigits((fr * 10) % den, den)

\* Round half to even, as float formatting rounds the exact value of the double.
RoundHalfEven(q, r, den) ==
    IF 2 * r > den \/ (2 * r = den /\ q % 2 = 1) THEN q + 1 ELSE q

\* Cut instead of round: what a formatter without rounding would print.
Format2fTruncated(x) ==
    IF x.cls = "nan" THEN <<"n", "a", "n">>
    ELSE IF x.cls = "inf" THEN Sign(x) \o <<"i", "n", "f">>
    ELSE LET ip == x.num \div x.den
             c  == ((x.num % x.den) * 100) \div x.den
         IN  Sign(x) \o Grouped(ip) \o <<".">>
             \o <<Digits[(c \div 10) + 1], Digits[(c % 10) + 1]>>

\* format(x, ',.2f') for a float x (line 213, conversion).
Format2f(x) ==
    IF x.cls = "nan" THEN <<"n", "a", "n">>
    ELSE IF x.cls = "inf" THEN Sign(x) \o <<"i", "n", "f">>
    ELSE LET ip == x.num \div x.den
             fr == x.num % x.den
             c  == RoundHalfEven((fr * 100) \div x.den, (fr * 100) % x.den, x.den)
             i2 == IF c = 100 THEN ip + 1 ELSE ip
             c2 == IF c = 100 THEN 0 ELSE c
         IN  Sign(x) \o Grouped(i2) \o <<".">>
             \o <<Digits[(c2 \div 10) + 1], Digits[(c2 % 10) + 1]>>

\* format(x, ',') (line 213, amount): an int prints its digits; a float prints
\* its shortest repr, which for a small dyadic value is its exact expansion,
\* with at least one digit after the point.
FormatComma(x) ==
    IF x.py = "int" THEN Sign(x) \o Grouped(x.num)
    ELSE IF x.cls = "nan" THEN <<"n", "a", "n">>
    ELSE IF x.cls = "inf" THEN Sign(x) \o <<"i", "n", "f">>
    ELSE LET fd == FracDigits(x.num % x.den, x.den)
         IN  Sign(x) \o Grouped(x.num \div x.den) \o <<".">>
             \o (IF fd = <<>> THEN <<"0">> ELSE fd)

-----------------------------------------------------------------------------
(* The values the callback is dispatched with, and what the API may answer *)

BTC == <<"B", "T", "C">>

ETH == <<"E", "T", "H">>

USD == <<"U", "S", "D">>

EUR == <<"E", "U", "R">>

GBP == <<"G", "B", "P">>

NOK == <<"N", "O", "K">>

\* Values of the coin dropdown (two of the ten rows of digital_currency_list.csv).
Coins == {BTC, ETH}

\* The options of the currency dropdown.
Supported == {USD, EUR, GBP}

\* The currency codes a callback request may carry: the server does not check
\* a posted value against the dropdown's options.
Currencies == Supported \cup {NOK}

\* Values of the number input: empty (None), 0, 1, 2.5, 1000.
Amounts == {PyNone, PyInt(FALSE, 0), PyInt(FALSE, 1), PyFloat(FALSE, 5, 2), PyInt(FALSE, 1000)}

\* Strings the API may give as "5. Exchange Rate"
RateStrings ==
    { <<"6", "5", "0", "0", "0", ".", "1", "2", "5">>,
      <<"3", "0", "0", "0", ".", "0">>,
      <<"0", ".", "3", "7", "5">>,
      <<"0">>,
      <<"-", "1", ".", "5">>,
      <<"n", "a", "n">>,
      <<"a", "b", "c">> }

RateBody(v) ==
    JDict("Realtime Currency Exchange Rate" :> JDict("5. Exchange Rate" :> v))

\* The quota notice and the unknown-pair error of the API: no rate object.
NoteBody == JDict("Note" :> JStr(<<"q", "u", "o", "t", "a">>))

\* JSON bodies: a rate, an object without the rate object, a rate object
\* without the field, a null field, and a body that is no object.
Bodies ==
    {RateBody(JStr(s)) : s \in RateStrings}
    \cup {NoteBody, RateBody(JNull), JList,
          JDict("Realtime Currency Exchange Rate" :> JDict(EmptyDict))}

NoResp == [kind |-> "none", body |-> JNull]

\* requests.get raises (DNS, connection refused, timeout).
NetErr == [kind |-> "neterr", body |-> JNull]

\* A body that is not JSON (an HTML error page).
NotJson == [kind |-> "text", body |-> JNull]

JsonResp(b) == [kind |-> "json", body |-> b]

Responses == {NetErr, NotJson} \cup {JsonResp(b) : b \in Bodies}

\* The smaller sets of the concurrent specification.
ConcCoins == {BTC}

ConcCurrencies == {USD, NOK}

ConcAmounts == {PyNone, PyInt(FALSE, 1), PyFloat(FALSE, 5, 2)}

ConcResponses == {NetErr, NotJson, JsonResp(NoteBody),
                  JsonResp(RateBody(JStr(<<"0", ".", "3", "7", "5">>)))}

-----------------------------------------------------------------------------
(* What update_conversion returns *)

NoResult == [kind |-> "none", text |-> <<>>, exc |-> ""]

\* return '' (line 200)
Empty == [kind |-> "str", text |-> <<>>, exc |-> ""]

\* return 'Data not available' (line 208)
DataNotAvailable ==
    [kind |-> "str",
     text |-> <<"D", "a", "t", "a", " ", "n", "o", "t", " ",
                "a", "v", "a", "i", "l", "a", "b", "l", "e">>,
     exc |-> ""]

\* return html.H4(children) (line 213)
H4(children) == [kind |-> "H4", text |-> children, exc |-> ""]

\* An exception leaves update_conversion.
Raised(e) == [kind |-> "raise", text |-> <<>>, exc |-> e]

\* symbol (line 196)
symbol == (USD :> "$") @@ (EUR :> "€") @@ (GBP :> "£")

NoUrl == [from_currency |-> <<>>, to_currency |-> <<>>, apikey |-> ""]

-----------------------------------------------------------------------------
(* State *)

VARIABLES
    my_key,      \* the module-level credential (line 41)
    pc,          \* where each invocation stands
    coin,        \* update_conversion's arguments
    currency,
    amount,
    url,         \* get_current_rate: the query of the request (line 51)
    resp,        \* what requests.get met
    data,        \* the parsed body (line 52)
    rate,        \* the rate (lines 55, 57, 204)
    conversion,  \* line 212
    result,      \* what update_conversion returned or raised
    calls,       \* get_current_rate invocations made by the invocation
    sent         \* outbound requests issued for the invocation

vars == <<my_key, pc, coin, currency, amount, url, resp, data, rate,
          conversion, result, calls, sent>>

Init ==
    /\ my_key = "GQYCH20FNCG9NCR1"
    /\ pc = [i \in Invocations |-> "idle"]
    /\ coin = [i \in Invocations |-> <<>>]
    /\ currency = [i \in Invocations |-> <<>>]
    /\ amount = [i \in Invocations |-> PyNone]
    /\ url = [i \in Invocations |-> NoUrl]
    /\ resp = [i \in Invocations |-> NoResp]
    /\ data = [i \in Invocations |-> JNull]
    /\ rate = [i \in Invocations |-> Unset]
    /\ conversion = [i \in Invocations |-> Unset]
    /\ result = [i \in Invocations |-> NoResult]
    /\ calls = [i \in Invocations |-> 0]
    /\ sent = [i \in Invocations |-> 0]

-----------------------------------------------------------------------------
(* Steps of one invocation *)

\* Dash dispatches the callback with the values of its three Inputs
\* (lines 188-194).
Dispatch(i, c, cur, a) ==
    /\ pc[i] = "idle"
    /\ pc' = [pc EXCEPT ![i] = "update_conversion"]
    /\ coin' = [coin EXCEPT ![i] = c]
    /\ currency' = [currency EXCEPT ![i] = cur]
    /\ amount' = [amount EXCEPT ![i] = a]
    /\ UNCHANGED <<my_key, url, resp, data, rate, conversion, result, calls, sent>>

\* The query string of line 51, as its parameters.
Url(c, cur, apikey) == [from_currency |-> c, to_currency |-> cur, apikey |-> apikey]

\* A callback that asks for the rate before it looks at the amount.
CheckAmountFetchFirst(i) ==
    /\ pc[i] = "update_conversion"
    /\ pc' = [pc EXCEPT ![i] = "requests.get"]
    /\ calls' = [calls EXCEPT ![i] = @ + 1]
    /\ url' = [url EXCEPT ![i] = Url(coin[i], currency[i], my_key)]
    /\ UNCHANGED <<my_key, coin, currency, amount, resp, data, rate, conversion,
                   result, sent>>

\* A callback that answers an empty amount with the message.
CheckAmountMessage(i) ==
    /\ pc[i] = "update_conversion"
    /\ IF amount[i].py = "None"
       THEN /\ result' = [result EXCEPT ![i] = DataNotAvailable]
            /\ pc' = [pc EXCEPT ![i] = "done"]
            /\ UNCHANGED <<calls, url>>
       ELSE /\ pc' = [pc EXCEPT ![i] = "requests.get"]
            /\ calls' = [calls EXCEPT ![i] = @ + 1]
            /\ url' = [url EXCEPT ![i] = Url(coin[i], currency[i], my_key)]
            /\ UNCHANGED result
    /\ UNCHANGED <<my_key, coin, currency, amount, resp, data, rate, conversion, sent>>

\* Lines 196-204 and 49-51: return '' when no amount is entered, else call
\* get_current_rate(coin, currency), which builds its url.  (The default of
\* apikey is my_key as it was when the function was defined; my_key is never
\* assigned again.)
CheckAmount(i) ==
    /\ pc[i] = "update_conversion"
    /\ IF amount[i].py = "None"
       THEN /\ result' = [result EXCEPT ![i] = Empty]
            /\ pc' = [pc EXCEPT ![i] = "done"]
            /\ UNCHANGED <<calls, url>>
       ELSE /\ pc' = [pc EXCEPT ![i] = "requests.get"]
            /\ calls' = [calls EXCEPT ![i] = @ + 1]
            /\ url' = [url EXCEPT ![i] = Url(coin[i], currency[i], my_key)]
            /\ UNCHANGED result
    /\ UNCHANGED <<my_key, coin, currency, amount, resp, data, rate, conversion, sent>>

\* A fetcher that asks again when the connection fails.
RequestsGetRetry(i, r) ==
    /\ pc[i] = "requests.get"
    /\ sent' = [sent EXCEPT ![i] = @ + 1]
    /\ resp' = [resp EXCEPT ![i] = r]
    /\ pc' = [pc EXCEPT ![i] = IF r.kind = "neterr" THEN "requests.get" ELSE "json"]
    /\ UNCHANGED <<my_key, coin, currency, amount, url, data, rate, conversion,
                   result, calls>>

\* Line 52, requests.get(url): one request goes out; the call returns a
\* response r or raises, and nothing in get_current_rate or update_conversion
\* catches that.
RequestsGet(i, r) ==
    /\ pc[i] = "requests.get"
    /\ sent' = [sent EXCEPT ![i] = @ + 1]
    /\ resp' = [resp EXCEPT ![i] = r]
    /\ IF r.kind = "neterr"
       THEN /\ result' = [result EXCEPT ![i] = Raised("ConnectionError")]
            /\ pc' = [pc EXCEPT ![i] = "done"]
       ELSE /\ pc' = [pc EXCEPT ![i] = "json"]
            /\ UNCHANGED result
    /\ UNCHANGED <<my_key, coin, currency, amount, url, data, rate, conversion, calls>>

\* Line 52, .json(): outside the try block, so a body that is not JSON raises
\* out of get_current_rate and out of update_conversion.
Json(i) ==
    /\ pc[i] = "json"
    /\ IF resp[i].kind = "text"
       THEN /\ result' = [result EXCEPT ![i] = Raised("JSONDecodeError")]
            /\ pc' = [pc EXCEPT ![i] = "done"]
            /\ UNCHANGED data
       ELSE /\ data' = [data EXCEPT ![i] = resp[i].body]
            /\ pc' = [pc EXCEPT ![i] = "try"]
            /\ UNCHANGED result
    /\ UNCHANGED <<my_key, coin, currency, amount, url, resp, rate, conversion,
                   calls, sent>>

\* Lines 54-57: float(data['Realtime Currency Exchange Rate']['5. Exchange
\* Rate']), and None when anything in it raises.
ParseRate(d) ==
    LET a == GetItem(d, "Realtime Currency Exchange Rate")
        b == IF a.exc = "" THEN GetItem(a.v, "5. Exchange Rate") ELSE a
        f == IF b.exc = "" THEN FloatOf(b.v) ELSE Raise(b.exc)
    IN  IF f.exc = "" THEN f.v ELSE PyNone

\* Lines 54-59 and 204: the try block; get_current_rate returns rate.
TryFloat(i) ==
    /\ pc[i] = "try"
    /\ rate' = [rate EXCEPT ![i] = ParseRate(data[i])]
    /\ pc' = [pc EXCEPT ![i] = "returned"]
    /\ UNCHANGED <<my_key, coin, currency, amount, url, resp, data, conversion,
                   result, calls, sent>>

\* The f-string of line 213; symbol[currency] is a KeyError for a currency
\* that is not a key of symbol.
Display(a, c, cur, conv) ==
    IF cur \in DOMAIN symbol
    THEN H4(FormatComma(a) \o <<" ">> \o c \o <<" ", "=", " ">>
            \o <<symbol[cur]>> \o Format2f(conv))
    ELSE Raised("KeyError")

\* Lines 207-213 with the amount a.
RenderWith(i, a) ==
    /\ pc[i] = "returned"
    /\ pc' = [pc EXCEPT ![i] = "done"]
    /\ IF rate[i].py = "None"
       THEN /\ result' = [result EXCEPT ![i] = DataNotAvailable]
            /\ UNCHANGED conversion
       ELSE LET m == PyMul(rate[i], a)
            IN  IF m.exc # ""
                THEN /\ result' = [result EXCEPT ![i] = Raised(m.exc)]
                     /\ UNCHANGED conversion
                ELSE /\ conversion' = [conversion EXCEPT ![i] = m.v]
                     /\ result' = [result EXCEPT ![i] =
                                       Display(a, coin[i], currency[i], m.v)]
    /\ UNCHANGED <<my_key, coin, currency, amount, url, resp, data, rate, calls, sent>>

\* A callback that reads the amount from a variable all invocations share
\* (here: the first invocation's) instead of from its own argument.
RenderSharedAmount(i) == RenderWith(i, amount[1])

\* A callback that multiplies without looking whether there is a rate.
RenderNoCheck(i) ==
    /\ pc[i] = "returned"
    /\ pc' = [pc EXCEPT ![i] = "done"]
    /\ LET m == PyMul(rate[i], amount[i])
       IN  IF m.exc # ""
           THEN /\ result' = [result EXCEPT ![i] = Raised(m.exc)]
                /\ UNCHANGED conversion
           ELSE /\ conversion' = [conversion EXCEPT ![i] = m.v]
                /\ result' = [result EXCEPT ![i] =
                                  Display(amount[i], coin[i], currency[i], m.v)]
    /\ UNCHANGED <<my_key, coin, currency, amount, url, resp, data, rate, calls, sent>>

\* A callback that shows nothing when the rate is missing.
RenderSilent(i) ==
    /\ pc[i] = "returned"
    /\ pc' = [pc EXCEPT ![i] = "done"]
    /\ IF rate[i].py = "None"
       THEN /\ result' = [result EXCEPT ![i] = Empty]
            /\ UNCHANGED conversion
       ELSE LET m == PyMul(rate[i], amount[i])
            IN  /\ m.exc = ""
                /\ conversion' = [conversion EXCEPT ![i] = m.v]
                /\ result' = [result EXCEPT ![i] =
                                  Display(amount[i], coin[i], currency[i], m.v)]
    /\ UNCHANGED <<my_key, coin, currency, amount, url, resp, data, rate, calls, sent>>

\* Lines 207-213: the rest of update_conversion once get_current_rate returned.
Render(i) == RenderWith(i, amount[i])

\* Dash sends what the callback returned (or the error) to the browser; the
\* invocation's frame, and every local in it, is gone.
Collect(i) ==
    /\ pc[i] = "done"
    /\ pc' = [pc EXCEPT ![i] = "idle"]
    /\ coin' = [coin EXCEPT ![i] = <<>>]
    /\ currency' = [currency EXCEPT ![i] = <<>>]
    /\ amount' = [amount EXCEPT ![i] = PyNone]
    /\ url' = [url EXCEPT ![i] = NoUrl]
    /\ resp' = [resp EXCEPT ![i] = NoResp]
    /\ data' = [data EXCEPT ![i] = JNull]
    /\ rate' = [rate EXCEPT ![i] = Unset]
    /\ conversion' = [conversion EXCEPT ![i] = Unset]
    /\ result' = [result EXCEPT ![i] = NoResult]
    /\ calls' = [calls EXCEPT ![i] = 0]
    /\ sent' = [sent EXCEPT ![i] = 0]
    /\ UNCHANGED my_key

-----------------------------------------------------------------------------
(* Specifications *)

\* One request at a time: a callback is dispatched when none is in progress.
DispatchOne(i) ==
    /\ \A j \in Invocations : pc[j] = "idle"
    /\ \E c \in Coins, cur \in Currencies, a \in Amounts : Dispatch(i, c, cur, a)

Next ==
    \E i \in Invocations :
        \/ DispatchOne(i)
        \/ CheckAmount(i)
        \/ \E r \in Responses : RequestsGet(i, r)
        \/ Json(i)
        \/ TryFloat(i)
        \/ Render(i)
        \/ Collect(i)

Spec == Init /\ [][Next]_vars

\* Independent input changes: callbacks are dispatched while others are in
\* progress (the development server handles each request in its own thread).
DispatchAny(i) ==
    \E c \in ConcCoins, cur \in ConcCurrencies, a \in ConcAmounts : Dispatch(i, c, cur, a)

NextConc ==
    \E i \in Invocations :
        \/ DispatchAny(i)
        \/ CheckAmount(i)
        \/ \E r \in ConcResponses : RequestsGet(i, r)
        \/ Json(i)
        \/ TryFloat(i)
        \/ Render(i)
        \/ Collect(i)

SpecConc == Init /\ [][NextConc]_vars

-----------------------------------------------------------------------------
(* Properties *)

Present(i) == amount[i].py \in {"int", "float"}

\* get_current_rate was called by invocation i and is no longer running.
FetcherLeft(i) == calls[i] = 1 /\ pc[i] \in {"returned", "done"}

\* The lookup failed: no connection, a body that is not JSON, no rate field in
\* the body, or a field that float() does not read.
LookupFailed(r) ==
    \/ r.kind \in {"neterr", "text"}
    \/ /\ r.kind = "json"
       /\ LET a == GetItem(r.body, "Realtime Currency Exchange Rate")
              b == GetItem(a.v, "5. Exchange Rate")
          IN  a.exc # "" \/ b.exc # "" \/ FloatOf(b.v).exc # ""

\* C1: whenever the lookup failed (network failure, body not JSON, rate field
\* absent, value not numeric), get_current_rate has returned None and no
\* exception has left it.
C1_FetcherNeverRaises ==
    \A i \in Invocations :
        FetcherLeft(i) /\ LookupFailed(resp[i])
            => rate[i] = PyNone /\ result[i].kind # "raise"

\* C2: an invocation whose amount is None returns '', whatever the coin, the
\* currency and the state of the API.
C2_AbsentAmountGivesEmpty ==
    \A i \in Invocations :
        pc[i] = "done" /\ amount[i].py = "None" => result[i] = Empty

C2_Witness ==
    \E i \in Invocations :
        /\ pc[i] = "done" /\ amount[i].py = "None"
        /\ coin[i] = ETH /\ currency[i] = NOK
        /\ result[i].kind = "str"

StripCommas(s) == SelectSeq(s, LAMBDA c : c # ",")

\* The text a reads as the number x.
ReadsAs(a, x) ==
    LET f == FloatOfStr(StripCommas(a))
    IN  f.exc = "" /\ f.v.cls = "fin" /\ f.v.neg = x.neg
        /\ f.v.num * x.den = x.num * f.v.den

\* The text v is digits (in groups), a point and two digits, and the number it
\* shows is within half a cent of n/d.
TwoDecimalsOf(v, n, d) ==
    /\ Len(v) >= 4
    /\ v[Len(v) - 2] = "."
    /\ IsDigit(v[Len(v) - 1]) /\ IsDigit(v[Len(v)])
    /\ LET ipart == StripCommas(SubSeq(v, 1, Len(v) - 3))
       IN  /\ ipart # <<>> /\ AllDigits(ipart)
           /\ LET shown == ((DigitsVal(ipart) - (n \div d)) * 100
                            + 10 * DigitVal(v[Len(v) - 1]) + DigitVal(v[Len(v)])) * d
                  exact == 100 * (n % d)
              IN  2 * (shown - exact) <= d /\ 2 * (exact - shown) <= d

SymbolOf(cur) == CASE cur = USD -> "$" [] cur = EUR -> "€" [] cur = GBP -> "£"

\* The text t is '<amount> <coin> = <symbol><value>' for this amount, coin and
\* currency, with value the two-decimal rounding of n/d.
ShowsConversion(t, a, c, cur, n, d) ==
    \E k \in 1..Len(t) :
        LET head == <<" ">> \o c \o <<" ", "=", " ">> \o <<SymbolOf(cur)>>
            rest == SubSeq(t, k, Len(t))
        IN  /\ ReadsAs(SubSeq(t, 1, k - 1), a)
            /\ Len(rest) > Len(head)
            /\ SubSeq(rest, 1, Len(head)) = head
            /\ TwoDecimalsOf(SubSeq(rest, Len(head) + 1, Len(rest)), n, d)

PositiveRate(r) == r.py = "float" /\ r.cls = "fin" /\ ~r.neg /\ r.num > 0

\* C4: with a rate > 0, an amount >= 0 and a currency of {USD, EUR, GBP} the
\* converted value is amount * rate and the result reads
\* '<amount> <coin> = <symbol><value>', value rounded to two decimals; 2.5 ETH
\* at 3000.00 EUR shows as '2.5 ETH = €7,500.00'.
C4_ConversionDisplayed ==
    \A i \in Invocations :
        pc[i] = "done" /\ Present(i) /\ ~amount[i].neg /\ PositiveRate(rate[i])
        /\ currency[i] \in Supported
            => LET n == amount[i].num * rate[i].num
                   d == amount[i].den * rate[i].den
               IN  /\ conversion[i].py = "float" /\ conversion[i].cls = "fin"
                   /\ ~conversion[i].neg
                   /\ conversion[i].num * d = n * conversion[i].den
                   /\ result[i].kind = "H4"
                   /\ ShowsConversion(result[i].text, amount[i], coin[i],
                                      currency[i], n, d)
                   /\ (coin[i] = ETH /\ currency[i] = EUR
                       /\ amount[i] = PyFloat(FALSE, 5, 2)
                       /\ rate[i] = PyFloat(FALSE, 3000, 1)
                         => result[i].text =
                              <<"2", ".", "5", " ", "E", "T", "H", " ", "=", " ",
                                "€", "7", ",", "5", "0", "0", ".", "0", "0">>)

C4_Witness ==
    \E i \in Invocations :
        /\ pc[i] = "done" /\ coin[i] = BTC /\ currency[i] = GBP
        /\ amount[i] = PyFloat(FALSE, 5, 2)
        /\ rate[i] = PyFloat(FALSE, 3, 8)
        /\ result[i].kind = "H4"

\* C5: every get_current_rate invocation issues exactly one request: none
\* before line 52 has run, one after it, never a second one, whatever the
\* response was.
C5_OneRequestPerInvocation ==
    \A i \in Invocations :
        /\ calls[i] \in {0, 1}
        /\ sent[i] = IF pc[i] = "requests.get" THEN calls[i] - 1 ELSE calls[i]

C5_Witness ==
    \E i \in Invocations :
        pc[i] = "done" /\ calls[i] = 1 /\ sent[i] = 1 /\ resp[i] = NetErr

\* C6: every rate get_current_rate returns as present is a number > 0.
C6_RatePositive ==
    \A i \in Invocations : rate[i].py = "float" => PositiveRate(rate[i])

\* C7: with an amount and a currency outside {USD, EUR, GBP} the request goes
\* to the API and, whatever JSON the API answers, update_conversion returns
\* 'Data not available'.
C7_UnsupportedCurrencyGivesMessage ==
    \A i \in Invocations :
        pc[i] = "done" /\ Present(i) /\ currency[i] \notin Supported
        /\ resp[i].kind = "json"
            => sent[i] = 1 /\ result[i] = DataNotAvailable

SameCall(i, j) ==
    /\ coin[i] = coin[j] /\ currency[i] = currency[j] /\ amount[i] = amount[j]
    /\ resp[i] = resp[j]

\* C9: invocations do not interact: two invocations with the same arguments
\* whose requests met the same response hold the same rate and end in the same
\* result, whatever ran in between; every request carries the credential, and
\* the credential is never changed.
C9_NoInterference ==
    /\ my_key = "GQYCH20FNCG9NCR1"
    /\ \A i \in Invocations : calls[i] = 1 => url[i] = Url(coin[i], currency[i], my_key)
    /\ \A i, j \in Invocations :
           pc[i] = "done" /\ pc[j] = "done" /\ SameCall(i, j)
               => result[i] = result[j] /\ rate[i] = rate[j]
                  /\ conversion[i] = conversion[j]

C9_Witness ==
    \E i, j \in Invocations :
        /\ i # j /\ pc[i] = "done" /\ pc[j] = "done" /\ SameCall(i, j)
        /\ result[i].kind = "H4"

=============================================================================
